---- MODULE Spec2Model ----
(***************************************************************************)
(* Model of the Streamlit ECG annotation script src/app.py (lines 688 on). *)
(*                                                                         *)
(* The script is rerun top to bottom for every widget interaction; the     *)
(* state that survives a run is st.session_state.  One action below is one *)
(* interaction: the run it triggers together with the reruns that run      *)
(* requests, except the rerun of "Submit for Review", which is an action   *)
(* of its own because the status "under-review" is visible in between.     *)
(*                                                                         *)
(* Times are integers in milliseconds (0.8 s = 800), confidences are       *)
(* integers in thousandths (0.9 = 900), the zoom factor is counted in      *)
(* halves (1.0 = 2), the wall clock is in milliseconds since the session   *)
(* started.                                                                *)
(*                                                                         *)
(* The keys zoom and annotation_mode of st.session_state are written from  *)
(* their widgets by every run before the run reads them (lines 918-925),   *)
(* so they carry nothing from one run to the next: they are inputs of the  *)
(* run, not variables.                                                     *)
(***************************************************************************)
EXTENDS Integers, Sequences, FiniteSets, TLC

VARIABLES
    ecg_df,              \* st.session_state.ecg_df: the current waveform
    annotations,         \* st.session_state.annotations: list of dicts
    uploaded_file_name,  \* st.session_state.uploaded_file_name ("" = none)
    quality_status,      \* st.session_state.quality_status
    selected_lead,       \* st.session_state.selected_lead
    now,                 \* the wall clock read by time.time(), in ms
    export,              \* the dict built by the export handler of this run
    last                 \* the interaction handled by the last run

vars == <<ecg_df, annotations, uploaded_file_name, quality_status,
          selected_lead, now, export, last>>

----------------------------------------------------------------------------
\* Bounds of the model

MaxTicks == 1          \* milliseconds the wall clock advances outside the sleep
MaxManual == 1         \* manual annotations held by the store at one time
MaxBatches == 1        \* detection batches held by the store at one time
MaxRepeats == 1        \* detection runs on a store that holds a batch

----------------------------------------------------------------------------
\* Program constants

MsPerSec == 1000
SAMPLE_RATE_DEFAULT == 500
DURATION_DEFAULT == 10
BeatIntervalMs == 800
RPeakOffsetMs == 280
SleepMs == 1000

LEADS == {"Lead II"}
ANNOTATION_TYPES == {"R-Peak", "P-Wave"}
ZoomSteps == {2, 4}
ClickModes == {"P-Wave"}   \* the annotation types chosen for manual adds
None == <<>>               \* an absent value; a present value v is <<v>>

----------------------------------------------------------------------------
\* Waveforms

\* A DataFrame of `samples` rows: row i has time i * num / den milliseconds
\* and the amplitudes named by `values`.
NewDf(samples, num, den, values) ==
    [samples |-> samples, num |-> num, den |-> den, values |-> values]

\* df['time'].iloc[i], in whole milliseconds
SampleTime(df, i) == (i * df.num) \div df.den

\* df['time'].iloc[-1]
LastSampleTime(df) == SampleTime(df, df.samples - 1)

\* total duration covered by the waveform: the number of rows times the
\* spacing of the rows
DurationMs(df) == IF df.samples = 0 THEN 0 ELSE (df.samples * df.num) \div df.den

\* The noise np.random.rand() adds to the samples of one synthesized
\* waveform is a draw; two waveforms of the same draw have equal amplitudes.
\* The draw of the waveform the session starts with is "noise 0".
NoiseStates == {"noise 0", "noise 1"}

\* generate_ecg_data(duration, sample_rate) with duration in milliseconds:
\* samples = int(duration * sample_rate),
\* t = np.linspace(0, duration, samples, endpoint=False), i.e. row i at
\* i * duration / samples; noise is the draw of the amplitudes
generate_ecg_data(duration, sample_rate, noise) ==
    LET samples == (duration * sample_rate) \div MsPerSec
    IN NewDf(samples, duration, samples, noise)

\* generate_ecg_data(): the waveforms a call with the defaults can return
Synthesized ==
    {generate_ecg_data(DURATION_DEFAULT * MsPerSec, SAMPLE_RATE_DEFAULT, n) :
        n \in NoiseStates}

\* The files put into the uploader.  "short.edf" is a recording pyedflib
\* decodes (1250 samples at 250 Hz, 5 s).
FileNames == {"short.edf"}

\* Further files: an EDF file pyedflib raises on, a WFDB signal file, an
\* image, a PDF and a file of a type the uploader does not list.
OtherFiles == {"bad.edf", "rec.dat", "scan.png", "report.pdf", "notes.txt"}

\* st.file_uploader(..., type=[...]): the uploader takes files of these types
UploaderTypes == {"edf", "dat", "jpg", "jpeg", "png", "pdf"}

\* fname.split('.')[-1].lower()
Ext(fname) ==
    CASE fname = "short.edf" -> "edf"
      [] fname = "bad.edf" -> "edf"
      [] fname = "rec.dat" -> "dat"
      [] fname = "scan.png" -> "png"
      [] fname = "report.pdf" -> "pdf"
      [] fname = "notes.txt" -> "txt"
      [] OTHER -> ""

\* pyedflib.EdfReader(fname).readSignal(0) and getSampleFrequency(0) with
\* t = np.arange(len(sigbufs)) / fs: the decoded signal, or None when the
\* reader is missing or raises
EdfReader(fname) ==
    IF fname = "short.edf" THEN <<NewDf(1250, MsPerSec, 250, fname)>> ELSE None

\* a parser that returns nothing when the reader fails
parse_edf_file_Propagate(fname) ==
    IF EdfReader(fname) = None THEN {} ELSE {EdfReader(fname)[1]}

\* the waveforms parse_edf_file can return
parse_edf_file(fname) ==
    IF EdfReader(fname) = None THEN Synthesized ELSE {EdfReader(fname)[1]}

\* wfdb.rdrecord(<temporary file>): the temporary copy has no header file
\* next to it and physical=False leaves p_signal unset, so the read raises
\* (as it does when wfdb is missing)
WfdbReader(fname) == None

\* the waveforms parse_wfdb_dat can return
parse_wfdb_dat(fname) ==
    IF WfdbReader(fname) = None THEN Synthesized ELSE {WfdbReader(fname)[1]}

\* The upload block of the sidebar: the waveforms it can leave in
\* st.session_state.ecg_df, given the file held by the uploader and the
\* waveform before it.
LoadUploaded(fname, df) ==
    IF fname = "" THEN {df}
    ELSE IF Ext(fname) \in {"jpg", "jpeg", "png"} THEN Synthesized
    ELSE IF Ext(fname) = "edf" THEN parse_edf_file(fname)
    ELSE IF Ext(fname) \in {"dat", "wfdb"} THEN parse_wfdb_dat(fname)
    ELSE IF Ext(fname) = "pdf" THEN Synthesized
    ELSE {df}

----------------------------------------------------------------------------
\* Annotations

Min(a, b) == IF a <= b THEN a ELSE b
Max(a, b) == IF a >= b THEN a ELSE b

\* a clip that lets every value through
Clip_Unclamped(x, lo, hi) == x

\* np.clip(x, lo, hi) = minimum(maximum(x, lo), hi)
Clip(x, lo, hi) == Min(Max(x, lo), hi)

\* dict.get(key, default)
Get(a, key, default) == IF key \in DOMAIN a THEN a[key] ELSE default

\* len(np.arange(0, DURATION_DEFAULT, beat_interval)) = ceil(stop / step)
NumBeats == (DURATION_DEFAULT * MsPerSec + BeatIntervalMs - 1) \div BeatIntervalMs

\* The values np.random.rand() can return are represented by the state r0
\* of the generator; draw number i of a batch gives
\* round(0.9 + 0.1 * rand, 3), a value in 900..1000.
RandStates == {63}
Confidence(r0, i) == 900 + ((r0 + 37 * i) % 101)

\* run_ai_detection_simulation(df, selected_lead, existing) at clock base_id
run_ai_detection_simulation(df, lead, base_id, r0) ==
    [k \in 1..NumBeats |->
        [id |-> base_id + (k - 1),
         time |-> Clip((k - 1) * BeatIntervalMs + RPeakOffsetMs, 0, LastSampleTime(df)),
         type |-> "R-Peak",
         lead |-> lead,
         aiGenerated |-> TRUE,
         confidence |-> Confidence(r0, k - 1)]]

\* a merge that leaves out the candidates the store has at their time and type
MergeBatch_Dedup(anns, batch) ==
    anns \o SelectSeq(batch, LAMBDA c :
        \A i \in 1..Len(anns) : anns[i].time # c.time \/ anns[i].type # c.type)

\* st.session_state.annotations + ai_annotations
MergeBatch(anns, batch) == anns \o batch

\* new_ann of the click handler
NewAnn(t, clicked_x, mode, lead) ==
    [id |-> t,
     time |-> clicked_x,
     type |-> mode,
     lead |-> lead,
     aiGenerated |-> FALSE,
     user |-> "Current User"]

\* a filter on the time of the row instead of its id
RemoveById_ByTime(anns, rid) ==
    SelectSeq(anns, LAMBDA a :
        \A i \in 1..Len(anns) : anns[i].id = rid => a.time # anns[i].time)

\* [a for a in annotations if a["id"] != ann["id"]]
RemoveById(anns, rid) == SelectSeq(anns, LAMBDA a : a.id # rid)

\* sorted(annotations, key=lambda a: a["time"]): a stable sort; the result
\* is given as the sequence of positions of the input list.
\* a comparison that puts a row before the rows of equal time
KeyLess_OrEqual(a, b) == a.time <= b.time

KeyLess(a, b) == a.time < b.time

\* position i put into the sorted positions srt: it moves towards the front
\* past the rows it is less than
RECURSIVE InsertIdx(_, _, _)
InsertIdx(anns, srt, i) ==
    IF srt = <<>> THEN <<i>>
    ELSE IF KeyLess(anns[i], anns[srt[Len(srt)]])
         THEN Append(InsertIdx(anns, SubSeq(srt, 1, Len(srt) - 1), i), srt[Len(srt)])
    ELSE Append(srt, i)

RECURSIVE SortedIdx(_, _)
SortedIdx(anns, n) ==
    IF n = 0 THEN <<>> ELSE InsertIdx(anns, SortedIdx(anns, n - 1), n)

\* the rows of anns at the positions idx
RowsAt(anns, idx) == [k \in 1..Len(idx) |-> anns[idx[k]]]

SortedByTime(anns) == RowsAt(anns, SortedIdx(anns, Len(anns)))

IdsOf(anns) == {anns[i].id : i \in 1..Len(anns)}

\* The id of a row that was removed before its "Remove" button is pressed
\* again (a second press that arrives after the row is gone).
StaleIds == {0}

\* The rows whose "Remove" button is pressed in the model: the manual rows
\* and the rows of the first beat of a detection batch.
RemovableIds(anns) ==
    {anns[i].id : i \in {j \in 1..Len(anns) :
        ~anns[j].aiGenerated \/ anns[j].time = RPeakOffsetMs}}

CountManual(anns) == Cardinality({i \in 1..Len(anns) : ~anns[i].aiGenerated})
CountAI(anns) == Cardinality({i \in 1..Len(anns) : anns[i].aiGenerated})

----------------------------------------------------------------------------
\* Viewer

\* visible_duration = DURATION_DEFAULT / zoom; x_min = 0, x_max = visible_duration
XMin == 0
XMax(z) == (DURATION_DEFAULT * MsPerSec * 2) \div z

\* the annotations drawn as markers: x_min <= ann["time"] <= x_max
Visible(anns, z) == {i \in 1..Len(anns) : XMin <= anns[i].time /\ anns[i].time <= XMax(z)}

\* The points of the figure a click can return: the points of the ECG trace
\* and the markers.  One row of the DataFrame and the rightmost marker stand
\* for all of them.
ClickRows == {500}
ClickableX(df, anns, z) ==
    LET shown == {anns[i].time : i \in Visible(anns, z)}
    IN {SampleTime(df, i) : i \in {r \in ClickRows : r < df.samples}}
           \cup {t \in shown : \A u \in shown : u <= t}

----------------------------------------------------------------------------
\* Export

\* an entry that reports full confidence when none is stored
ExportEntry_FullConfidence(a) ==
    [time |-> a.time,
     type |-> a.type,
     aiGenerated |-> Get(a, "aiGenerated", FALSE),
     confidence |-> Get(a, "confidence", 1000)]

ExportEntry(a) ==
    [time |-> a.time,
     type |-> a.type,
     aiGenerated |-> Get(a, "aiGenerated", FALSE),
     confidence |-> Get(a, "confidence", 0)]

ExportDoc(anns, fname, lead, t) ==
    [metadata |-> [fileName |-> IF fname = "" THEN "simulated-ecg" ELSE fname,
                   lead |-> lead,
                   exportDate |-> t,
                   annotator |-> "Streamlit User"],
     annotations |-> [k \in 1..Len(anns) |-> ExportEntry(anns[k])]]

----------------------------------------------------------------------------
\* The script

Init ==
    /\ ecg_df = generate_ecg_data(DURATION_DEFAULT * MsPerSec, SAMPLE_RATE_DEFAULT, "noise 0")
    /\ annotations = <<>>
    /\ uploaded_file_name = ""
    /\ quality_status = "pending"
    /\ selected_lead = "Lead II"
    /\ now = 0
    /\ export = None
    /\ last = "start"

\* A run started by a widget begins when the previous run and the reruns it
\* asked for have ended; the run that finds the status "under-review" sleeps
\* and reruns before it reaches the export button and the viewer.
Idle == quality_status # "under-review"

\* What every run does before it handles its interaction: the upload block
\* is executed again for the file the uploader holds.
Reload == ecg_df' \in LoadUploaded(uploaded_file_name, ecg_df)

\* the wall clock advances by a millisecond
Tick ==
    /\ now < MaxTicks
    /\ now' = now + 1
    /\ UNCHANGED <<ecg_df, annotations, uploaded_file_name, quality_status,
                   selected_lead, export, last>>

\* an upload that drops the annotations beyond the end of the new waveform
Upload_Pruning(fname) ==
    /\ Idle
    /\ Ext(fname) \in UploaderTypes
    /\ uploaded_file_name' = fname
    /\ ecg_df' \in LoadUploaded(fname, ecg_df)
    /\ annotations' = SelectSeq(annotations, LAMBDA a : a.time <= DurationMs(ecg_df'))
    /\ export' = None
    /\ last' = "upload"
    /\ UNCHANGED <<quality_status, selected_lead, now>>

\* a file is put into the uploader
Upload(fname) ==
    /\ Idle
    /\ Ext(fname) \in UploaderTypes
    /\ uploaded_file_name' = fname
    /\ ecg_df' \in LoadUploaded(fname, ecg_df)
    /\ export' = None
    /\ last' = "upload"
    /\ UNCHANGED <<annotations, quality_status, selected_lead, now>>

\* the zoom slider is moved to z: the run only renders
SetZoom(z) ==
    /\ Idle
    /\ Reload
    /\ export' = None
    /\ last' = "zoom"
    /\ UNCHANGED <<annotations, uploaded_file_name, quality_status,
                   selected_lead, now>>

\* the "Auto-Detect (AI)" button
AutoDetect(r0) ==
    /\ Idle
    /\ CountAI(annotations) + NumBeats <= MaxBatches * NumBeats
    /\ Reload
    /\ annotations' = MergeBatch(annotations,
           run_ai_detection_simulation(ecg_df', selected_lead, now, r0))
    /\ export' = None
    /\ last' = "detect"
    /\ UNCHANGED <<uploaded_file_name, quality_status, selected_lead, now>>

\* the "Auto-Detect (AI)" button pressed again when the store holds a batch
AutoDetectAgain(r0) ==
    /\ Idle
    /\ CountAI(annotations) >= NumBeats
    /\ CountAI(annotations) + NumBeats <= (1 + MaxRepeats) * NumBeats
    /\ Reload
    /\ annotations' = MergeBatch(annotations,
           run_ai_detection_simulation(ecg_df', selected_lead, now, r0))
    /\ export' = None
    /\ last' = "detect"
    /\ UNCHANGED <<uploaded_file_name, quality_status, selected_lead, now>>

\* a button that is never disabled
SubmitEnabled_Always(status) == TRUE

\* st.button("Submit for Review", disabled=(quality_status != "pending"))
SubmitEnabled(status) == status = "pending"

\* the "Submit for Review" button; a disabled button returns False
SubmitForReview ==
    /\ Idle
    /\ Reload
    /\ quality_status' =
           IF SubmitEnabled(quality_status) THEN "under-review" ELSE quality_status
    /\ export' = None
    /\ last' = "submit"
    /\ UNCHANGED <<annotations, uploaded_file_name, selected_lead, now>>

\* time.sleep(1.0) returns after one second or more; the clock it returns at
\* is later than that of every run before it
AfterSleep == SleepMs + MaxTicks

\* a review that sends the record back instead of approving it
ApproveSimulation_Reject ==
    /\ quality_status = "under-review"
    /\ Reload
    /\ now' = AfterSleep
    /\ quality_status' = "pending"
    /\ export' = None
    /\ last' = "approve"
    /\ UNCHANGED <<annotations, uploaded_file_name, selected_lead>>

\* the rerun that finds the status "under-review": sleep, approve, rerun
ApproveSimulation ==
    /\ quality_status = "under-review"
    /\ Reload
    /\ now' = AfterSleep
    /\ quality_status' = "approved"
    /\ export' = None
    /\ last' = "approve"
    /\ UNCHANGED <<annotations, uploaded_file_name, selected_lead>>

\* the "Export Annotations (.json)" button
Export ==
    /\ Idle
    /\ Reload
    /\ export' = <<ExportDoc(annotations, uploaded_file_name, selected_lead, now)>>
    /\ last' = "export"
    /\ UNCHANGED <<annotations, uploaded_file_name, quality_status,
                   selected_lead, now>>

\* a click on a point of the figure; annotation_mode is the value of the
\* "Annotation Type" selectbox in this run
ClickAdd(clicked_x, annotation_mode) ==
    /\ Idle
    /\ CountManual(annotations) < MaxManual
    /\ Reload
    /\ annotations' = Append(annotations,
           NewAnn(now, clicked_x, annotation_mode, selected_lead))
    /\ export' = None
    /\ last' = "click"
    /\ UNCHANGED <<uploaded_file_name, quality_status, selected_lead, now>>

\* the "Remove" button of the row of annotation rid; a press that arrives
\* when no row has this id finds no button and changes nothing
Remove(rid) ==
    /\ Idle
    /\ Reload
    /\ annotations' = RemoveById(annotations, rid)
    /\ export' = None
    /\ last' = IF rid \in IdsOf(annotations) THEN "remove" ELSE "remove-absent"
    /\ UNCHANGED <<uploaded_file_name, quality_status, selected_lead, now>>

Next ==
    \/ Tick
    \/ \E fname \in FileNames : Upload(fname)
    \/ \E z \in ZoomSteps : SetZoom(z)
    \/ \E r0 \in RandStates : AutoDetect(r0)
    \/ SubmitForReview
    \/ ApproveSimulation
    \/ Export
    \/ \E z \in ZoomSteps : \E x \in ClickableX(ecg_df, annotations, z) :
           \E mode \in ClickModes : ClickAdd(x, mode)
    \/ \E rid \in RemovableIds(annotations) \cup StaleIds : Remove(rid)

Spec == Init /\ [][Next]_vars

\* The approval rerun is requested by the script itself and needs no user.
FairSpec == Spec /\ WF_vars(ApproveSimulation)

\* The runs that read or change the annotation list and the waveform, for the
\* properties of the list alone: the quality workflow and the export, which
\* do not write the list, are left out.
StoreNext ==
    \/ Tick
    \/ \E fname \in FileNames : Upload(fname)
    \/ \E z \in ZoomSteps : SetZoom(z)
    \/ \E r0 \in RandStates : AutoDetect(r0)
    \/ \E z \in ZoomSteps : \E x \in ClickableX(ecg_df, annotations, z) :
           \E mode \in ClickModes : ClickAdd(x, mode)
    \/ \E rid \in RemovableIds(annotations) \cup StaleIds : Remove(rid)

StoreSpec == Init /\ [][StoreNext]_vars

\* The runs that add to the annotation list, with repeated detection runs.
MergeNext ==
    \/ Tick
    \/ \E fname \in FileNames : Upload(fname)
    \/ \E r0 \in RandStates : AutoDetect(r0)
    \/ \E r0 \in RandStates : AutoDetectAgain(r0)
    \/ \E z \in ZoomSteps : \E x \in ClickableX(ecg_df, annotations, z) :
           \E mode \in ClickModes : ClickAdd(x, mode)

MergeSpec == Init /\ [][MergeNext]_vars

\* The runs that replace the waveform or add to the annotation list, with
\* every kind of file put into the uploader.
UploadNext ==
    \/ Tick
    \/ \E fname \in FileNames \cup OtherFiles : Upload(fname)
    \/ \E z \in ZoomSteps : SetZoom(z)
    \/ \E r0 \in RandStates : AutoDetect(r0)
    \/ \E z \in ZoomSteps : \E x \in ClickableX(ecg_df, annotations, z) :
           \E mode \in ClickModes : ClickAdd(x, mode)

UploadSpec == Init /\ [][UploadNext]_vars

\* generate_ecg_data as a function: the durations (in milliseconds) and
\* the sample rates (in Hz) it is called with
Durations == {500, 1000, 1500, 2000, 2500, 3000, 4000, 5000, 10000}
SampleRates == {1, 2, 3, 4, 5, 250, 500}

\* a call generate_ecg_data(duration, sample_rate); the result is kept as
\* the current waveform
Synthesize(duration, sample_rate, noise) ==
    /\ ecg_df' = generate_ecg_data(duration, sample_rate, noise)
    /\ last' = "synthesize"
    /\ UNCHANGED <<annotations, uploaded_file_name, quality_status,
                   selected_lead, now, export>>

SynthNext ==
    \E duration \in Durations : \E sample_rate \in SampleRates :
        \E noise \in NoiseStates : Synthesize(duration, sample_rate, noise)

SynthSpec == Init /\ [][SynthNext]_vars

\* The runs of the script with every kind of file put into the uploader.
WaveNext ==
    \/ Tick
    \/ \E fname \in FileNames \cup OtherFiles : Upload(fname)
    \/ \E z \in ZoomSteps : SetZoom(z)
    \/ \E r0 \in RandStates : AutoDetect(r0)
    \/ SubmitForReview
    \/ ApproveSimulation
    \/ Export
    \/ \E z \in ZoomSteps : \E x \in ClickableX(ecg_df, annotations, z) :
           \E mode \in ClickModes : ClickAdd(x, mode)
    \/ \E rid \in RemovableIds(annotations) \cup StaleIds : Remove(rid)

WaveSpec == Init /\ [][WaveNext]_vars

----------------------------------------------------------------------------
\* Quality workflow

\* a run that handled a press of "Submit for Review"
ReviewRequested == last' = "submit" /\ now' = now

\* C1: the quality status changes only from pending to under-review, by a
\* review request, or from under-review to approved; a review request made
\* when the status is not pending leaves it unchanged, and approved is
\* never left.
C1_QualityTransitions ==
    [][/\ quality_status' # quality_status =>
              \/ /\ quality_status = "pending"
                 /\ quality_status' = "under-review"
                 /\ ReviewRequested
              \/ /\ quality_status = "under-review"
                 /\ quality_status' = "approved"
       /\ (ReviewRequested /\ quality_status \in {"under-review", "approved"})
              => quality_status' = quality_status
       /\ quality_status = "approved" => quality_status' = "approved"]_vars

\* a review request was made after the approval and the status stayed
C1_Witness == quality_status = "approved" /\ last = "submit"

\* C2: once the status is under-review it becomes approved without a user
\* action, and it never goes from under-review back to pending.
C2_AutoApprove ==
    /\ (quality_status = "under-review") ~> (quality_status = "approved")
    /\ [][quality_status = "under-review" => quality_status' # "pending"]_vars

\* the approval rerun has run
C2_Witness == quality_status = "approved" /\ last = "approve"

\* the operations on the annotations
OtherOperation ==
    \/ \E z \in ZoomSteps : \E x \in ClickableX(ecg_df, annotations, z) :
           \E mode \in ClickModes : ClickAdd(x, mode)
    \/ \E rid \in IdsOf(annotations) : Remove(rid)
    \/ \E r0 \in RandStates : AutoDetect(r0)
    \/ Export

\* C3: while the status is under-review, some other operation (add, remove,
\* detection merge, export) can run to completion with the status still
\* under-review.
C3_NonBlocking ==
    quality_status = "under-review" =>
        ENABLED (OtherOperation /\ quality_status' = "under-review")

----------------------------------------------------------------------------
\* Annotation store

InRange(a, df) == 0 <= a.time /\ a.time <= DurationMs(df)

\* a run that handled a click on the figure
Clicked == last' = "click" /\ now' = now

\* C4: the annotations of the store have pairwise distinct ids.
C4_UniqueIds ==
    \A i, j \in 1..Len(annotations) :
        i # j => annotations[i].id # annotations[j].id

\* C5: every annotation of the store has a time within 0 and the duration of
\* the current waveform, and no step puts an annotation with a time outside
\* this interval into the store.
C5_TimesInRange ==
    /\ [](\A i \in 1..Len(annotations) : InRange(annotations[i], ecg_df))
    /\ [][\A k \in (Len(annotations) + 1)..Len(annotations') :
              InRange(annotations'[k], ecg_df')]_vars

\* C6: an add with an id that is already in the store is rejected and
\* leaves the contents and the order of the store unchanged.
C6_DuplicateIdRejected ==
    [][(Clicked /\ now \in IdsOf(annotations)) => annotations' = annotations]_vars

\* the rows of anns with id rid
RowsOf(anns, rid) == {k \in 1..Len(anns) : anns[k].id = rid}

\* C7: remove(rid) leaves no row with id rid in the store or in the sorted
\* list, keeps every row with another id, in the same relative order, and
\* changes nothing when no row has id rid.
C7_RemoveFrame ==
    [][(last' \in {"remove", "remove-absent"} /\ now' = now) =>
          \A lst \in {SortedByTime(annotations')} :
          \A rid \in IdsOf(annotations) \cup StaleIds :
              Remove(rid) =>
                  /\ rid \notin IdsOf(annotations')
                  /\ rid \notin IdsOf(lst)
                  /\ LET gone == RowsOf(annotations, rid)
                     IN /\ Len(annotations') = Len(annotations) - Cardinality(gone)
                        /\ \A i \in (1..Len(annotations)) \ gone :
                               annotations'[i - Cardinality({k \in gone : k < i})]
                                   = annotations[i]
                  /\ rid \notin IdsOf(annotations) => annotations' = annotations]_vars

\* a row was removed from a store that holds a detection batch and the
\* other rows are still there
C7_Witness == last = "remove" /\ Len(annotations) >= NumBeats - 1

\* C8: the sorted list is a permutation of the store, non-decreasing in
\* time, with rows of equal time in the order of the store; a run that only
\* renders the list leaves the store as it is.
C8_SortedListing ==
    /\ [](LET n == Len(annotations)
              idx == SortedIdx(annotations, n)
              lst == SortedByTime(annotations)
          IN /\ Len(idx) = n /\ Len(lst) = n
             /\ {idx[k] : k \in 1..n} = 1..n
             /\ \A k \in 1..n : lst[k] = annotations[idx[k]]
             /\ \A k \in 1..(n - 1) : lst[k].time <= lst[k + 1].time
             /\ \A k \in 1..(n - 1) :
                    lst[k].time = lst[k + 1].time => idx[k] < idx[k + 1])
    /\ [][(last' = "zoom" /\ now' = now) => annotations' = annotations]_vars

\* the store holds rows of equal time and rows in descending time order
C8_Witness ==
    /\ \E i, j \in 1..Len(annotations) :
           i < j /\ annotations[i].time = annotations[j].time
    /\ \E i, j \in 1..Len(annotations) :
           i < j /\ annotations[i].time > annotations[j].time

----------------------------------------------------------------------------
\* Export

\* C9: the annotations array of the export document is ascending in time.
C9_ExportSorted ==
    export # None =>
        \A k \in 1..(Len(export[1].annotations) - 1) :
            export[1].annotations[k].time <= export[1].annotations[k + 1].time

Pairs(seq) == {<<seq[k].time, seq[k].type>> : k \in 1..Len(seq)}
Count(seq, p) ==
    Cardinality({k \in 1..Len(seq) : <<seq[k].time, seq[k].type>> = p})

\* C10: the export document has one entry per stored annotation, with its
\* time and type, aiGenerated true exactly for the auto-detected ones,
\* confidence the stored one for these and 0 for the manual ones; the
\* (time, type) pairs of the document are those of the store, with the same
\* multiplicities.
C10_ExportEntries ==
    export # None =>
        LET doc == export[1].annotations
        IN /\ Len(doc) = Len(annotations)
           /\ \A k \in 1..Len(annotations) :
                  /\ doc[k].time = annotations[k].time
                  /\ doc[k].type = annotations[k].type
                  /\ doc[k].aiGenerated = ("confidence" \in DOMAIN annotations[k])
                  /\ doc[k].confidence =
                         IF "confidence" \in DOMAIN annotations[k]
                         THEN annotations[k].confidence ELSE 0
           /\ Pairs(doc) = Pairs(annotations)
           /\ \A p \in Pairs(doc) : Count(doc, p) = Count(annotations, p)

\* a store with manual and auto-detected annotations was exported
C10_Witness ==
    /\ export # None
    /\ \E i, j \in 1..Len(annotations) :
           annotations[i].aiGenerated /\ ~annotations[j].aiGenerated

\* a run that handled a press of "Export Annotations"
Exported == last' = "export" /\ now' >= now /\ export' # None

\* C11: an export leaves the annotation store, the waveform and the quality
\* status as they were, and the document of an export that follows an
\* export with no other operation in between differs from the document
\* before at most in exportDate.
C11_ExportPure ==
    [][Exported =>
          /\ annotations' = annotations
          /\ ecg_df' = ecg_df
          /\ quality_status' = quality_status
          /\ (last = "export" /\ export # None) =>
                 /\ export'[1].annotations = export[1].annotations
                 /\ export'[1].metadata.fileName = export[1].metadata.fileName
                 /\ export'[1].metadata.lead = export[1].metadata.lead
                 /\ export'[1].metadata.annotator = export[1].metadata.annotator]_vars

----------------------------------------------------------------------------
\* Detection

\* a run that handled a press of "Auto-Detect (AI)"
Detected == last' = "detect" /\ now' = now

\* the rows a detection run put into the store
Batch == SubSeq(annotations', Len(annotations) + 1, Len(annotations'))

\* the number of cycle starts 0, 0.8, 1.6, ... below the duration of df
CycleStarts(df) == (DurationMs(df) + BeatIntervalMs - 1) \div BeatIntervalMs

\* C12: a detection run yields one candidate per 0.8 s cycle that starts
\* within the duration of the waveform it is run on.
C12_OnePerCycle ==
    [][Detected => Len(Batch) = CycleStarts(ecg_df')]_vars

\* C13: every candidate of a detection run has type R-Peak, the selected
\* lead, aiGenerated true, a confidence within 0.9 and 1.0, and the time
\* min(0.8 k + 0.28, last sample time) for its cycle index k, which lies
\* within 0 and the duration of the waveform; the ids of the batch increase
\* strictly in cycle order.
C13_CandidateFields ==
    [][Detected =>
          \A batch \in {Batch} :
          \A k \in 1..Len(batch) :
              /\ batch[k].type = "R-Peak"
              /\ batch[k].lead = selected_lead
              /\ batch[k].aiGenerated = TRUE
              /\ batch[k].confidence >= 900 /\ batch[k].confidence <= 1000
              /\ batch[k].time =
                     Min((k - 1) * BeatIntervalMs + RPeakOffsetMs,
                         LastSampleTime(ecg_df'))
              /\ batch[k].time >= 0 /\ batch[k].time <= DurationMs(ecg_df')
              /\ k > 1 => batch[k - 1].id < batch[k].id]_vars

\* a detection run on a waveform shorter than ten seconds: candidates were
\* clamped to its last sample time
C13_Witness ==
    /\ last = "detect"
    /\ DurationMs(ecg_df) < DURATION_DEFAULT * MsPerSec
    /\ \E i \in 1..Len(annotations) :
           /\ annotations[i].aiGenerated
           /\ annotations[i].time = LastSampleTime(ecg_df)

----------------------------------------------------------------------------
\* Viewer and waveform

\* C15: for every zoom of the slider the visible window starts at 0 and
\* ends at the duration of the current waveform divided by the zoom.
C15_VisibleWindow ==
    \A z \in ZoomSteps :
        XMin = 0 /\ XMax(z) = (DurationMs(ecg_df) * 2) \div z

\* a run that handled a file put into the uploader
Uploaded == last' = "upload" /\ now' = now

\* the waveforms the readers decode from the files
Decoded ==
    {EdfReader(f)[1] : f \in {g \in FileNames \cup OtherFiles : EdfReader(g) # None}}

\* C16: the current waveform is always one synthesized or one decoded
\* waveform as a whole, and a run that handles an upload leaves the
\* annotation store as it was, also when annotations lie beyond the end of
\* the new waveform.
C16_ReplacedWhole ==
    /\ [](ecg_df \in Synthesized \cup Decoded)
    /\ [][Uploaded => annotations' = annotations]_vars

\* a shorter waveform was uploaded and the store holds an annotation beyond
\* its end
C16_Witness ==
    /\ last = "upload"
    /\ \E i \in 1..Len(annotations) : annotations[i].time > DurationMs(ecg_df)

\* the files whose upload gives no decoded waveform
NotDecoded(f) ==
    \/ Ext(f) = "edf" /\ EdfReader(f) = None
    \/ Ext(f) \in {"dat", "wfdb"} /\ WfdbReader(f) = None
    \/ Ext(f) \notin {"edf", "dat", "wfdb"}

C18_SampleAxis ==
    [][\A duration \in Durations : \A sample_rate \in SampleRates :
          \A noise \in NoiseStates :
              Synthesize(duration, sample_rate, noise) =>
                  \A df \in {ecg_df'} :
                      /\ df.samples = (duration * sample_rate) \div MsPerSec
                      /\ df.samples > 0 => df.num > 0 /\ df.den > 0
                      /\ df.samples > 1 => df.num * sample_rate = MsPerSec * df.den
                      /\ \A i \in 0..(df.samples - 1) :
                             i * df.num < duration * df.den]_vars

\* C19: for every zoom of the slider the annotations drawn as markers are
\* the stored annotations with a time within 0 and the duration of the
\* current waveform divided by the zoom, and a run that only moves the zoom
\* leaves the store as it was.
C19_VisibleOverlay ==
    /\ [](\A z \in ZoomSteps :
              Visible(annotations, z) =
                  {i \in 1..Len(annotations) :
                      /\ 0 <= annotations[i].time
                      /\ annotations[i].time <= (DurationMs(ecg_df) * 2) \div z})
    /\ [][(last' = "zoom" /\ now' = now) => annotations' = annotations]_vars

----------------------------------------------------------------------------
\* Quality workflow and annotation store

\* a run that handled an operation on the annotations or an upload
StoreOperation ==
    /\ last' \in {"click", "remove", "remove-absent", "detect", "export", "upload"}
    /\ now' = now

\* C20: a step that changes the quality status leaves the annotation store
\* and the waveform as they were; a manual add, a remove, a detection merge,
\* an export and an upload leave the quality status as it was; once the
\* status is approved annotations can still be added and removed.
C20_Independent ==
    /\ [][/\ quality_status' # quality_status =>
                 (annotations' = annotations /\ ecg_df' = ecg_df)
          /\ StoreOperation => quality_status' = quality_status]_vars
    /\ [](quality_status = "approved" =>
              ((CountManual(annotations) < MaxManual =>
                   ENABLED (\E x \in ClickRows : \E mode \in ClickModes :
                               ClickAdd(SampleTime(ecg_df, x), mode)))
               /\ (\A rid \in IdsOf(annotations) : ENABLED Remove(rid))))

====
